---- MODULE Spec2Model ----
(***************************************************************************)
(* Model of the chitin Python client: the Engine session (chitin/_engine), *)
(* the ctypes adapter (chitin/_ffi) and the sidecar adapter (chitin/_http).*)
(* The native library and the sidecar are the environment: every reply     *)
(* they can give is an input of the action that models the call.           *)
(***************************************************************************)
EXTENDS Integers, Sequences, FiniteSets, TLC

VARIABLES
    pc,         \* "start" | "constructed" | "raised": where the caller is
    backend,    \* Engine._backend: "none" | "ffi" | "http"
    ffi,        \* Engine._ffi: "None" | "ffi" (the _ChitinFFI wrapper)
    handle,     \* Engine._handle: 0 is None, otherwise the engine pointer
    http,       \* Engine._http: {} is None, otherwise {base url}
    opened,     \* history: the fields __init__ left (the transport selected)
    freeLog,    \* history: the handles passed to chitin_engine_free, in order
    ncloses,    \* history: number of close() calls made so far
    last,       \* history: the last call: operation, session before it, replies,
                \* transport calls made, result
    resolved,   \* the library resolver: the environment it runs in, and {} or
                \* {the path resolve_chitin_lib returned}
    thr         \* the threads that share the session: for each, where it is in
                \* the operation it runs and the values it has loaded

\* the session and its history
session == <<pc, backend, ffi, handle, http, opened, freeLog, ncloses, last>>

vars == <<pc, backend, ffi, handle, http, opened, freeLog, ncloses, last,
          resolved, thr>>

----------------------------------------------------------------------------
(* Bounds of the model *)

\* close() calls explored on one session
MaxCloses == 2
\* event ids the engine hands out: 1..MaxEventId
MaxEventId == 2
\* engine pointers chitin_engine_new can return: 1..MaxHandle
MaxHandle == 2

EventIds == 1..MaxEventId
Handles == 1..MaxHandle

----------------------------------------------------------------------------
(* Status codes *)

CHITIN_OK == 0
CHITIN_ERR_INVALID == -1
CHITIN_ERR_DENIED == -2
CHITIN_ERR_ESCALATED == -3
CHITIN_ERR_INTERNAL == -4
CHITIN_ERR_NOT_FOUND == -5

Statuses ==
    {CHITIN_OK, CHITIN_ERR_INVALID, CHITIN_ERR_DENIED, CHITIN_ERR_ESCALATED,
     CHITIN_ERR_INTERNAL, CHITIN_ERR_NOT_FOUND}

----------------------------------------------------------------------------
(* Python values.  An optional value (x | None, or a key of a dict that    *)
(* may be absent) is a set: {} is None / absent, {v} is v.                 *)

Opt(S) == {{}} \cup {{v} : v \in S}
Val(o) == CHOOSE v \in o : TRUE

\* dict.get(key, default)
Get(o, default) == IF o = {} THEN default ELSE Val(o)

\* s contains w as a substring (Python: w in s)
Contains(s, w) ==
    \E i \in 1..(Len(s) - Len(w) + 1) : SubSeq(s, i, i + Len(w) - 1) = w

\* str.rstrip("/")
RECURSIVE RStrip(_)
RStrip(s) ==
    IF Len(s) > 0 /\ SubSeq(s, Len(s), Len(s)) = "/"
    THEN RStrip(SubSeq(s, 1, Len(s) - 1))
    ELSE s

(* A JSON object, by the keys the client reads. *)
EmptyObj ==
    [status |-> {}, error |-> {}, event_id |-> {}, allowed |-> {},
     outcome |-> {}, rule_id |-> {}, reason |-> {}, traced |-> {},
     text |-> {}, trace_chain |-> {}]

(* A byte buffer / response body, by what decoding and parsing make of it:  *)
(*   "null"    NULL pointer (native only)                                   *)
(*   "empty"   zero bytes                                                   *)
(*   "badutf8" bytes that are not UTF-8                                     *)
(*   "text"    UTF-8 text that is not JSON                                  *)
(*   "nonobj"  JSON, but not an object (a list)                             *)
(*   "obj"     a JSON object                                                *)
Buf(kind, obj) == [kind |-> kind, obj |-> obj]
NullBuf == Buf("null", EmptyObj)
EmptyBuf == Buf("empty", EmptyObj)
BadUtf8Buf == Buf("badutf8", EmptyObj)
TextBuf == Buf("text", EmptyObj)
NonObjBuf == Buf("nonobj", EmptyObj)
ObjBuf(obj) == Buf("obj", obj)

\* The text of a field of a JSON object, as it stands in the raw text.
Field(name, o) == IF o = {} THEN "" ELSE "\"" \o name \o "\":\"" \o Val(o) \o "\" "

\* bytes.decode("utf-8") of a buffer that decodes
RawText(buf) ==
    CASE buf.kind = "empty" -> ""
      [] buf.kind = "text" -> "permission denied"
      [] buf.kind = "nonobj" -> "[1]"
      [] buf.kind = "obj" ->
            "{ " \o Field("rule_id", buf.obj.rule_id)
                 \o Field("reason", buf.obj.reason)
                 \o Field("text", buf.obj.text) \o "}"
      [] OTHER -> ""

\* bytes.decode("utf-8") raises UnicodeDecodeError
DecodeFails(buf) == buf.kind = "badutf8"

\* json.loads raises (JSONDecodeError) on the decoded text
JsonFails(buf) == buf.kind \in {"empty", "text"}

\* json.loads gives a dict (otherwise .get raises AttributeError)
JsonIsObj(buf) == buf.kind = "obj"

----------------------------------------------------------------------------
(* Results of a call: a returned value or a raised exception. *)

NoneValue == [type |-> "None"]
IntValue(n) == [type |-> "int", v |-> n]
BoolValue(b) == [type |-> "bool", v |-> b]

\* chitin/_types.py: Decision
Decision(allowed, outcome, event_id, rule_id, reason) ==
    [type |-> "Decision", allowed |-> allowed, outcome |-> outcome,
     event_id |-> event_id, rule_id |-> rule_id, reason |-> reason]

\* chitin/_types.py: ExplainResult
ExplainResult(text, trace_chain) ==
    [type |-> "ExplainResult", text |-> text, trace_chain |-> trace_chain]

Return(v) ==
    [kind |-> "return", exc |-> "", status |-> 0, message |-> "", value |-> v]

\* chitin/_types.py: ChitinError(status, message)
ChitinError(status, message) ==
    [kind |-> "raise", exc |-> "ChitinError", status |-> status,
     message |-> message, value |-> NoneValue]

\* any other exception type: it has no status
OtherError(exc) ==
    [kind |-> "raise", exc |-> exc, status |-> 0, message |-> "",
     value |-> NoneValue]

\* what an adapter call did: the transport calls it made, and its result
Done(calls, result) == [calls |-> calls, result |-> result]

----------------------------------------------------------------------------
(* The native library's replies.  A reply to an ABI call is its status,    *)
(* what it wrote through the out-parameters (an integer, a buffer), and    *)
(* what chitin_last_error would answer right after it.                     *)

LastErrorObjs ==
    {[EmptyObj EXCEPT !.rule_id = r, !.reason = s] :
        r \in Opt({"r1"}), s \in Opt({"why"})}

LastErrorBufs ==
    {NullBuf, EmptyBuf, BadUtf8Buf, TextBuf, NonObjBuf}
        \cup {ObjBuf(o) : o \in LastErrorObjs}

\* chitin_last_error: its status is OK or NOT_FOUND, and it may set a buffer
LastErrors == [st : {CHITIN_OK, CHITIN_ERR_NOT_FOUND}, buf : LastErrorBufs]

\* the last error after a call that succeeded: there is none
NoLastError == [st |-> CHITIN_ERR_NOT_FOUND, buf |-> NullBuf]

NatReply(st, out, buf, le) == [st |-> st, out |-> out, buf |-> buf, le |-> le]

\* replies with a failing status: nothing is written through the out-parameters
NatFailures(sts) == {NatReply(st, 0, NullBuf, le) : st \in sts, le \in LastErrors}

ExplainObjs ==
    {[EmptyObj EXCEPT !.text = t, !.trace_chain = c] :
        t \in Opt({"why it is traced"}), c \in Opt({<<1>>})}

ExplainBufs ==
    {NullBuf, EmptyBuf, BadUtf8Buf, TextBuf, NonObjBuf}
        \cup {ObjBuf(o) : o \in ExplainObjs}

NatReplies(op) ==
    CASE op \in {"ingest", "record_result"} ->
            {NatReply(CHITIN_OK, id, NullBuf, NoLastError) : id \in EventIds}
                \cup NatFailures(Statuses \ {CHITIN_OK})
      [] op = "propose" ->
            {NatReply(CHITIN_OK, id, NullBuf, NoLastError) : id \in EventIds}
                \cup {NatReply(st, id, NullBuf, le) :
                        st \in {CHITIN_ERR_DENIED, CHITIN_ERR_ESCALATED},
                        id \in EventIds, le \in LastErrors}
                \cup NatFailures(Statuses \ {CHITIN_OK, CHITIN_ERR_DENIED,
                                             CHITIN_ERR_ESCALATED})
      [] op = "is_traced" ->
            {NatReply(CHITIN_OK, b, NullBuf, NoLastError) : b \in {0, 1}}
                \cup NatFailures(Statuses \ {CHITIN_OK})
      [] op = "explain" ->
            {NatReply(CHITIN_OK, 0, b, NoLastError) : b \in ExplainBufs}
                \cup NatFailures(Statuses \ {CHITIN_OK})
      [] op = "register_tool" ->
            {NatReply(CHITIN_OK, 0, NullBuf, NoLastError)}
                \cup NatFailures(Statuses \ {CHITIN_OK})
      [] OTHER -> {NatReply(CHITIN_OK, 0, NullBuf, NoLastError)}

----------------------------------------------------------------------------
(* chitin/_ffi.py: the native call adapter *)

\* _ChitinFFI._last_error: the text, or UnicodeDecodeError from decode
FFI_last_error(le) ==
    IF le.st = CHITIN_ERR_NOT_FOUND \/ le.buf.kind = "null"
    THEN [calls |-> <<"chitin_last_error">>, raised |-> FALSE,
          text |-> "unknown error"]
    ELSE [calls |-> <<"chitin_last_error", "chitin_free_string">>,
          raised |-> DecodeFails(le.buf),
          text |-> RawText(le.buf)]

\* raise ChitinError(st, self._last_error())
FFI_raise(st, calls, le) ==
    LET e == FFI_last_error(le) IN
    IF e.raised
    THEN Done(calls \o e.calls, OtherError("UnicodeDecodeError"))
    ELSE Done(calls \o e.calls, ChitinError(st, e.text))

\* _ChitinFFI.ingest
FFI_ingest(r) ==
    IF r.st # CHITIN_OK
    THEN FFI_raise(r.st, <<"chitin_ingest">>, r.le)
    ELSE Done(<<"chitin_ingest">>, Return(IntValue(r.out)))

\* the verdict fields propose reads out of the last-error text
FFI_verdict_fields(le, text) ==
    IF le.st # CHITIN_ERR_NOT_FOUND /\ JsonIsObj(le.buf)
    THEN [rule_id |-> le.buf.obj.rule_id,
          reason |-> {Get(le.buf.obj.reason, "")}]
    ELSE [rule_id |-> {}, reason |-> {text}]

\* _ChitinFFI.propose
FFI_propose(r) ==
    IF r.st = CHITIN_OK
    THEN Done(<<"chitin_propose">>,
              Return(Decision(TRUE, "allow", r.out, {}, {})))
    ELSE IF r.st \in {CHITIN_ERR_DENIED, CHITIN_ERR_ESCALATED}
    THEN LET e == FFI_last_error(r.le)
             f == FFI_verdict_fields(r.le, e.text)
             outcome == IF r.st = CHITIN_ERR_DENIED THEN "deny" ELSE "escalate"
         IN  IF e.raised
             THEN Done(<<"chitin_propose">> \o e.calls,
                       OtherError("UnicodeDecodeError"))
             ELSE Done(<<"chitin_propose">> \o e.calls,
                       Return(Decision(FALSE, outcome, r.out, f.rule_id, f.reason)))
    ELSE FFI_raise(r.st, <<"chitin_propose">>, r.le)

\* _ChitinFFI.record_result
FFI_record_result(r) ==
    IF r.st # CHITIN_OK
    THEN FFI_raise(r.st, <<"chitin_record_result">>, r.le)
    ELSE Done(<<"chitin_record_result">>, Return(IntValue(r.out)))

\* _ChitinFFI.is_traced
FFI_is_traced(r) ==
    IF r.st # CHITIN_OK
    THEN FFI_raise(r.st, <<"chitin_is_traced">>, r.le)
    ELSE Done(<<"chitin_is_traced">>, Return(BoolValue(r.out # 0)))

\* _ChitinFFI has no set_label: the attribute lookup raises AttributeError
FFI_set_label(r) == Done(<<>>, OtherError("AttributeError"))

\* _ChitinFFI.explain
FFI_explain(r) ==
    IF r.st # CHITIN_OK
    THEN FFI_raise(r.st, <<"chitin_explain">>, r.le)
    ELSE IF r.buf.kind \in {"null", "empty"}
    THEN Done(<<"chitin_explain">>, Return(ExplainResult("", <<>>)))
    ELSE IF DecodeFails(r.buf)
    THEN Done(<<"chitin_explain", "chitin_free_string">>,
              OtherError("UnicodeDecodeError"))
    ELSE IF JsonIsObj(r.buf)
    THEN Done(<<"chitin_explain", "chitin_free_string">>,
              Return(ExplainResult(Get(r.buf.obj.text, ""),
                                   Get(r.buf.obj.trace_chain, <<>>))))
    ELSE Done(<<"chitin_explain", "chitin_free_string">>,
              Return(ExplainResult(RawText(r.buf), <<>>)))

\* _ChitinFFI.register_tool
FFI_register_tool(r) ==
    IF r.st # CHITIN_OK
    THEN FFI_raise(r.st, <<"chitin_register_tool">>, r.le)
    ELSE Done(<<"chitin_register_tool">>, Return(NoneValue))

----------------------------------------------------------------------------
(* The sidecar's replies.  A reply to a POST is how the exchange ended      *)
(*   "2xx"      a success response with a body                              *)
(*   "204"      HTTP 204                                                    *)
(*   "error"    a non-2xx response (urlopen raises HTTPError)               *)
(*   "urlerror" no response (urlopen raises URLError)                       *)
(* and the body sent.                                                       *)

HttpReply(how, body) == [http |-> how, body |-> body]

BodyStatuses == Opt(Statuses)
BodyErrors == Opt({"sidecar says no"})

\* bodies that are no JSON object
NonObjBodies == {EmptyBuf, BadUtf8Buf, TextBuf, NonObjBuf}

\* error payloads of a non-2xx response
ErrorObjs ==
    {[EmptyObj EXCEPT !.status = st, !.error = e] :
        st \in BodyStatuses, e \in BodyErrors}

\* the JSON objects a 2xx response to the operation can carry
BodyObjs(op) ==
    CASE op \in {"ingest", "record_result"} ->
            {[EmptyObj EXCEPT !.status = st, !.error = e, !.event_id = id] :
                st \in BodyStatuses, e \in BodyErrors, id \in Opt(EventIds)}
      [] op = "propose" ->
            {[EmptyObj EXCEPT !.status = st, !.event_id = id, !.allowed = a,
                              !.outcome = o, !.rule_id = r, !.reason = s] :
                st \in Opt({CHITIN_OK, CHITIN_ERR_DENIED, CHITIN_ERR_ESCALATED,
                            CHITIN_ERR_INVALID}),
                id \in Opt(EventIds), a \in Opt(BOOLEAN),
                o \in Opt({"allow", "deny", "escalate"}),
                r \in Opt({"r1"}), s \in Opt({"why"})}
      [] op = "is_traced" ->
            {[EmptyObj EXCEPT !.status = st, !.error = e, !.traced = t] :
                st \in BodyStatuses, e \in BodyErrors, t \in Opt(BOOLEAN)}
      [] op = "explain" ->
            {[EmptyObj EXCEPT !.status = st, !.error = e, !.text = t,
                              !.trace_chain = c] :
                st \in BodyStatuses, e \in BodyErrors,
                t \in Opt({"why it is traced"}), c \in Opt({<<1>>})}
      [] op = "register_tool" -> ErrorObjs
      [] OTHER -> {EmptyObj}

HttpReplies(op) ==
    {HttpReply("2xx", b) : b \in NonObjBodies \cup {ObjBuf(o) : o \in BodyObjs(op)}}
        \cup {HttpReply("204", EmptyBuf)}
        \cup {HttpReply("error", b) :
                b \in NonObjBodies \cup {ObjBuf(o) : o \in ErrorObjs}}
        \cup {HttpReply("urlerror", EmptyBuf)}

----------------------------------------------------------------------------
(* chitin/_http.py: the sidecar adapter *)

\* what _post gives its caller: a raised exception or the parsed JSON value
PostRaised(result) == [raised |-> TRUE, result |-> result, isdict |-> FALSE,
                       obj |-> EmptyObj]
PostValue(isdict, obj) == [raised |-> FALSE, result |-> Return(NoneValue),
                           isdict |-> isdict, obj |-> obj]

\* _ChitinHTTP._post: the except HTTPError branch
HTTP_post_error(body) ==
    IF body.kind = "nonobj"
    THEN PostRaised(OtherError("AttributeError"))
    ELSE LET payload == IF body.kind = "obj" THEN body.obj ELSE EmptyObj IN
         PostRaised(ChitinError(
            Get(payload.status, CHITIN_ERR_INTERNAL),
            Get(payload.error, "HTTP Error 500: Internal Server Error")))

\* _ChitinHTTP._post
HTTP_post(rsp) ==
    CASE rsp.http = "urlerror" ->
            PostRaised(ChitinError(CHITIN_ERR_INTERNAL, "Connection refused"))
      [] rsp.http = "error" -> HTTP_post_error(rsp.body)
      [] rsp.http = "204" \/ rsp.body.kind = "empty" -> PostValue(TRUE, EmptyObj)
      [] DecodeFails(rsp.body) -> PostRaised(OtherError("UnicodeDecodeError"))
      [] JsonFails(rsp.body) -> PostRaised(OtherError("JSONDecodeError"))
      [] JsonIsObj(rsp.body) -> PostValue(TRUE, rsp.body.obj)
      [] OTHER -> PostValue(FALSE, EmptyObj)

\* the body of ingest and record_result after _post
HTTP_event_id(out, msg) ==
    IF ~out.isdict THEN OtherError("AttributeError")
    ELSE IF Get(out.obj.status, CHITIN_OK) # CHITIN_OK
    THEN ChitinError(Val(out.obj.status), Get(out.obj.error, msg))
    ELSE IF out.obj.event_id = {} THEN OtherError("KeyError")
    ELSE Return(IntValue(Val(out.obj.event_id)))

\* _ChitinHTTP.ingest
HTTP_ingest(rsp) ==
    LET out == HTTP_post(rsp) IN
    Done(<<"POST /ingest">>,
         IF out.raised THEN out.result ELSE HTTP_event_id(out, "ingest failed"))

\* _ChitinHTTP.propose
HTTP_propose(rsp) ==
    LET out == HTTP_post(rsp) IN
    Done(<<"POST /propose">>,
         IF out.raised THEN out.result
         ELSE IF ~out.isdict THEN OtherError("AttributeError")
         ELSE IF out.obj.event_id = {} THEN OtherError("KeyError")
         ELSE Return(Decision(Get(out.obj.allowed, FALSE),
                              Get(out.obj.outcome, "deny"),
                              Val(out.obj.event_id),
                              out.obj.rule_id,
                              out.obj.reason)))

\* _ChitinHTTP.record_result
HTTP_record_result(rsp) ==
    LET out == HTTP_post(rsp) IN
    Done(<<"POST /record_result">>,
         IF out.raised THEN out.result
         ELSE HTTP_event_id(out, "record_result failed"))

\* _ChitinHTTP.is_traced
HTTP_is_traced(rsp) ==
    LET out == HTTP_post(rsp) IN
    Done(<<"POST /is_traced">>,
         IF out.raised THEN out.result
         ELSE IF ~out.isdict THEN OtherError("AttributeError")
         ELSE IF out.obj.status # {CHITIN_OK}
         THEN ChitinError(Get(out.obj.status, CHITIN_ERR_INTERNAL),
                          Get(out.obj.error, "is_traced failed"))
         ELSE Return(BoolValue(Get(out.obj.traced, FALSE))))

\* _ChitinHTTP has no set_label: the attribute lookup raises AttributeError
HTTP_set_label(rsp) == Done(<<>>, OtherError("AttributeError"))

\* _ChitinHTTP.explain
HTTP_explain(rsp) ==
    LET out == HTTP_post(rsp) IN
    Done(<<"POST /explain">>,
         IF out.raised THEN out.result
         ELSE IF ~out.isdict THEN OtherError("AttributeError")
         ELSE IF Get(out.obj.status, CHITIN_OK) # CHITIN_OK
         THEN ChitinError(Val(out.obj.status), Get(out.obj.error, "explain failed"))
         ELSE Return(ExplainResult(Get(out.obj.text, ""),
                                   Get(out.obj.trace_chain, <<>>))))

\* _ChitinHTTP.register_tool
HTTP_register_tool(rsp) ==
    LET out == HTTP_post(rsp) IN
    Done(<<"POST /register_tool">>,
         IF out.raised THEN out.result ELSE Return(NoneValue))

----------------------------------------------------------------------------
(* Session construction: the environment of Engine.__init__ *)

\* how loading the native library ends (chitin/_ffi.py: _load_lib, _setup_signatures)
\*   "not_found"      no file matches and the loader's search fails: CDLL raises OSError
\*   "load_error"     the resolved file is no shared library: CDLL raises OSError
\*   "missing_symbol" the library loads and lacks a chitin_* symbol: AttributeError
\*   "ok"             the library loads and has every symbol
LibOutcomes == {"not_found", "load_error", "missing_symbol", "ok"}

\* chitin_engine_new: the pointer it returns (0 is NULL), and the last error after it
NewReplies ==
    {[h |-> h, le |-> NoLastError] : h \in Handles}
        \cup {[h |-> 0, le |-> le] : le \in LastErrors}

\* os.environ.get("CHITIN_SIDECAR_URL"): unset, empty, or a url
SidecarUrls == Opt({"", "http://sidecar:8080/"})

\* chitin_engine_new is not reached: the library did not load
NoNew == [h |-> 0, le |-> NoLastError]

InitInputs ==
    {in \in [lib : LibOutcomes, new : NewReplies, url : SidecarUrls] :
        in.lib # "ok" => in.new = NoNew}

NoInit == [lib |-> "ok", new |-> NoNew, url |-> {}]
NoNat == NatReply(CHITIN_OK, 0, NullBuf, NoLastError)
NoRsp == HttpReply("204", EmptyBuf)

----------------------------------------------------------------------------
(* chitin/_engine.py: Engine *)

\* _ChitinFFI.engine_new
FFI_engine_new(new) ==
    IF new.h = 0
    THEN FFI_raise(CHITIN_ERR_INTERNAL, <<"chitin_engine_new">>, new.le)
    ELSE Done(<<"chitin_engine_new">>, Return(IntValue(new.h)))

\* load_ffi() followed by ffi.engine_new(config_path): the native attempt
NativeAttempt(in) ==
    CASE in.lib \in {"not_found", "load_error"} ->
            Done(<<"resolve_chitin_lib", "CDLL">>, OtherError("OSError"))
      [] in.lib = "missing_symbol" ->
            Done(<<"resolve_chitin_lib", "CDLL", "_setup_signatures">>,
                 OtherError("AttributeError"))
      [] OTHER ->
            LET n == FFI_engine_new(in.new) IN
            Done(<<"resolve_chitin_lib", "CDLL", "_setup_signatures">> \o n.calls,
                 n.result)

\* the exceptions the try block of __init__ catches
InitCatches(exc) == exc \in {"ChitinError", "OSError"}

\* if url: a set, non-empty CHITIN_SIDECAR_URL
UrlConfigured(url) == url # {} /\ Val(url) # ""

UnavailableMessage ==
    "Chitin engine unavailable: native library failed to load and CHITIN_SIDECAR_URL is not set."

\* the fields of a session
Session(b, f, h, c) == [backend |-> b, ffi |-> f, handle |-> h, http |-> c]

\* the fields __init__ sets first, and close leaves
NoSession == Session("none", "None", 0, {})

\* mutant: a configured sidecar is preferred even after the native attempt
\* succeeded, and the handle engine_new returned is dropped
Engine_init_PrefersSidecar(in) ==
    LET n == NativeAttempt(in) IN
    IF UrlConfigured(in.url) /\ (n.result.kind = "return" \/ InitCatches(n.result.exc))
    THEN [calls |-> n.calls \o <<"_ChitinHTTP">>, result |-> Return(NoneValue),
          self |-> Session("http", "None", 0, {RStrip(Val(in.url))})]
    ELSE IF n.result.kind = "return"
    THEN [calls |-> n.calls, result |-> Return(NoneValue),
          self |-> Session("ffi", "ffi", n.result.value.v, {})]
    ELSE IF ~InitCatches(n.result.exc)
    THEN [calls |-> n.calls, result |-> n.result, self |-> NoSession]
    ELSE [calls |-> n.calls,
          result |-> ChitinError(CHITIN_ERR_INVALID, UnavailableMessage),
          self |-> NoSession]

\* Engine.__init__: the steps taken, the result, and the fields it leaves
Engine_init(in) ==
    LET n == NativeAttempt(in) IN
    IF n.result.kind = "return"
    THEN [calls |-> n.calls, result |-> Return(NoneValue),
          self |-> Session("ffi", "ffi", n.result.value.v, {})]
    ELSE IF ~InitCatches(n.result.exc)
    THEN [calls |-> n.calls, result |-> n.result,
          self |-> NoSession]
    ELSE IF UrlConfigured(in.url)
    THEN [calls |-> n.calls \o <<"_ChitinHTTP">>, result |-> Return(NoneValue),
          self |-> Session("http", "None", 0, {RStrip(Val(in.url))})]
    ELSE [calls |-> n.calls,
          result |-> ChitinError(CHITIN_ERR_INVALID, UnavailableMessage),
          self |-> NoSession]

\* mutant: _ensure_open tests for a state name the class never sets
EnsureOpenRaises_WrongSentinel(b) == b = "closed"

\* Engine._ensure_open raises
EnsureOpenRaises(b) == b = "none"

ClosedMessage == "Engine is closed"

\* self._ffi.<op>(self._handle, ...)
FFI_call(op, nat) ==
    CASE op = "ingest" -> FFI_ingest(nat)
      [] op = "propose" -> FFI_propose(nat)
      [] op = "record_result" -> FFI_record_result(nat)
      [] op = "is_traced" -> FFI_is_traced(nat)
      [] op = "set_label" -> FFI_set_label(nat)
      [] op = "explain" -> FFI_explain(nat)
      [] op = "register_tool" -> FFI_register_tool(nat)

\* self._http.<op>(...)
HTTP_call(op, rsp) ==
    CASE op = "ingest" -> HTTP_ingest(rsp)
      [] op = "propose" -> HTTP_propose(rsp)
      [] op = "record_result" -> HTTP_record_result(rsp)
      [] op = "is_traced" -> HTTP_is_traced(rsp)
      [] op = "set_label" -> HTTP_set_label(rsp)
      [] op = "explain" -> HTTP_explain(rsp)
      [] op = "register_tool" -> HTTP_register_tool(rsp)

\* the branch an operation takes after _ensure_open
UsesFFI(b) == b = "ffi"

\* Engine.ingest .. Engine.register_tool: _ensure_open, then the dispatch
Engine_call(op, self, nat, rsp) ==
    IF EnsureOpenRaises(self.backend)
    THEN Done(<<>>, ChitinError(CHITIN_ERR_INVALID, ClosedMessage))
    ELSE IF UsesFFI(self.backend)
    THEN IF self.ffi = "None"
         THEN Done(<<>>, OtherError("AttributeError"))
         ELSE FFI_call(op, nat)
    ELSE IF self.http = {}
         THEN Done(<<>>, OtherError("AttributeError"))
         ELSE HTTP_call(op, rsp)

\* Engine.close calls engine_free
CloseFrees(self) == self.backend = "ffi" /\ self.handle # 0

\* mutant: close frees the engine and forgets to reset the fields
Engine_close_KeepsFields(self) ==
    IF CloseFrees(self)
    THEN [calls |-> <<"chitin_engine_free">>, freed |-> <<self.handle>>,
          self |-> self]
    ELSE [calls |-> <<>>, freed |-> <<>>,
          self |-> Session("none", "None", self.handle, {})]

\* mutant: close frees the engine and keeps the freed pointer in _handle
Engine_close_KeepsHandle(self) ==
    IF CloseFrees(self)
    THEN [calls |-> <<"chitin_engine_free">>, freed |-> <<self.handle>>,
          self |-> Session("none", "None", self.handle, {})]
    ELSE [calls |-> <<>>, freed |-> <<>>,
          self |-> Session("none", "None", self.handle, {})]

\* Engine.close: the calls made and the fields it leaves
Engine_close(self) ==
    IF CloseFrees(self)
    THEN [calls |-> <<"chitin_engine_free">>, freed |-> <<self.handle>>,
          self |-> NoSession]
    ELSE [calls |-> <<>>, freed |-> <<>>,
          self |-> Session("none", "None", self.handle, {})]

----------------------------------------------------------------------------
(* chitin/_resolve.py: the library resolver *)

\* the directory part of a path: pathlib's Path.parent
RECURSIVE Parent(_)
Parent(p) ==
    IF Len(p) <= 1 THEN "/"
    ELSE IF SubSeq(p, Len(p), Len(p)) = "/" THEN SubSeq(p, 1, Len(p) - 1)
    ELSE Parent(SubSeq(p, 1, Len(p) - 1))

\* Path / name
Join(dir, name) == IF dir = "/" THEN "/" \o name ELSE dir \o "/" \o name

\* Path(__file__).resolve() of chitin/_resolve.py, and Path.cwd()
ResolveFile == "/srv/chitin-engine-lib/chitin/_resolve.py"
Cwd == "/work"

\* os.path.abspath: a relative path is joined to the working directory
AbsPath(p) ==
    IF p = "" THEN Cwd
    ELSE IF SubSeq(p, 1, 1) = "/" THEN p
    ELSE Join(Cwd, p)

\* platform.system()
Systems == {"Linux", "Darwin", "Windows", "FreeBSD"}

\* _lib_name: _LIB_NAMES.get(platform.system(), "libchitin.so")
LibName(system) ==
    CASE system = "Linux" -> "libchitin.so"
      [] system = "Darwin" -> "libchitin.dylib"
      [] system = "Windows" -> "chitin.dll"
      [] OTHER -> "libchitin.so"

\* the candidate locations
BundledPath(system) == Join(Join(Parent(ResolveFile), "_lib"), LibName(system))
DevCwdPath(system) == Join(Join(Join(Cwd, "target"), "release"), LibName(system))
SiblingPath(system) ==
    Join(Join(Join(Join(Parent(Parent(Parent(ResolveFile))), "chitin-engine"),
                   "target"), "release"), LibName(system))

\* what the file system holds at a location
Entries == {"absent", "file", "dir"}

\* os.environ.get("CHITIN_LIB_PATH"): unset, empty, an absolute or a relative path
LibPaths == Opt({"", "/opt/chitin/libchitin.so", "build/libchitin.so"})

\* the environment of a resolve_chitin_lib call: the platform, the override
\* and what is at the override path, and what is at the three locations.
\* Nothing is at the empty path.
ResolveEnvs ==
    {e \in [system : Systems, env_path : LibPaths, at_env : Entries,
            bundled : Entries, dev_cwd : Entries, sibling : Entries] :
        (e.env_path = {} \/ e.env_path = {""}) => e.at_env = "absent"}

\* os.path.isfile / Path.is_file, and Path.exists
IsFile(entry) == entry = "file"
Exists(entry) == entry # "absent"

\* mutant: the override is returned whenever it is set, existing file or not
resolve_chitin_lib_UncheckedOverride(e) ==
    IF e.env_path # {} /\ Val(e.env_path) # ""
    THEN AbsPath(Val(e.env_path))
    ELSE IF Exists(e.bundled) THEN BundledPath(e.system)
    ELSE IF IsFile(e.dev_cwd) THEN DevCwdPath(e.system)
    ELSE IF IsFile(e.sibling) THEN SiblingPath(e.system)
    ELSE LibName(e.system)

\* resolve_chitin_lib
resolve_chitin_lib(e) ==
    IF e.env_path # {} /\ Val(e.env_path) # "" /\ IsFile(e.at_env)
    THEN AbsPath(Val(e.env_path))
    ELSE IF Exists(e.bundled) THEN BundledPath(e.system)
    ELSE IF IsFile(e.dev_cwd) THEN DevCwdPath(e.system)
    ELSE IF IsFile(e.sibling) THEN SiblingPath(e.system)
    ELSE LibName(e.system)

NoEnv == [system |-> "Linux", env_path |-> {}, at_env |-> "absent",
          bundled |-> "absent", dev_cwd |-> "absent", sibling |-> "absent"]

\* nothing resolved
NoResolve == [env |-> NoEnv, path |-> {}]

----------------------------------------------------------------------------
(* The state machine *)

Ops == {"ingest", "propose", "record_result", "is_traced", "set_label",
        "explain", "register_tool"}

\* the threads that may hold the session
Threads == {"t1", "t2"}

\* a thread: its position, the operation it runs, the handle it loaded, and
\* whether that handle had been passed to engine_free when the call was issued
Thread(where, op, h, stale) == [pc |-> where, op |-> op, h |-> h, stale |-> stale]
Idle == Thread("idle", "none", 0, FALSE)

Self == Session(backend, ffi, handle, http)

Last(op, self, in, nat, rsp, calls, result) ==
    [op |-> op, self |-> self, init |-> in, nat |-> nat, rsp |-> rsp,
     calls |-> calls, result |-> result]

Init ==
    /\ pc = "start"
    /\ backend = "none"
    /\ ffi = "None"
    /\ handle = 0
    /\ http = {}
    /\ opened = NoSession
    /\ freeLog = <<>>
    /\ ncloses = 0
    /\ last = Last("none", NoSession, NoInit, NoNat, NoRsp, <<>>, Return(NoneValue))
    /\ resolved = NoResolve
    /\ thr = [t \in Threads |-> Idle]

\* Engine(config_path)
Construct ==
    /\ pc = "start"
    /\ \E in \in InitInputs :
         LET d == Engine_init(in) IN
         /\ pc' = IF d.result.kind = "return" THEN "constructed" ELSE "raised"
         /\ backend' = d.self.backend
         /\ ffi' = d.self.ffi
         /\ handle' = d.self.handle
         /\ http' = d.self.http
         /\ opened' = d.self
         /\ last' = Last("__init__", NoSession, in, NoNat, NoRsp, d.calls, d.result)
    /\ UNCHANGED <<freeLog, ncloses, resolved, thr>>

\* mutant: an operation that raises closes the session
Call_ClosesOnRaise(op) ==
    /\ pc = "constructed"
    /\ \E nat \in (IF backend = "ffi" THEN NatReplies(op) ELSE {NoNat}),
          rsp \in (IF backend = "http" THEN HttpReplies(op) ELSE {NoRsp}) :
         LET d == Engine_call(op, Self, nat, rsp) IN
         /\ last' = Last(op, Self, NoInit, nat, rsp, d.calls, d.result)
         /\ backend' = IF d.result.kind = "raise" THEN "none" ELSE backend
    /\ UNCHANGED <<pc, ffi, handle, http, opened, freeLog, ncloses,
                   resolved, thr>>

\* one of the seven operations on the session
Call(op) ==
    /\ pc = "constructed"
    /\ \E nat \in (IF backend = "ffi" THEN NatReplies(op) ELSE {NoNat}),
          rsp \in (IF backend = "http" THEN HttpReplies(op) ELSE {NoRsp}) :
         LET d == Engine_call(op, Self, nat, rsp) IN
         last' = Last(op, Self, NoInit, nat, rsp, d.calls, d.result)
    /\ UNCHANGED <<pc, backend, ffi, handle, http, opened, freeLog, ncloses,
                   resolved, thr>>

ingest == Call("ingest")
propose == Call("propose")
record_result == Call("record_result")
is_traced == Call("is_traced")
set_label == Call("set_label")
explain == Call("explain")
register_tool == Call("register_tool")

\* close(), called directly or by __exit__
CloseAs(op) ==
    /\ pc = "constructed"
    /\ ncloses < MaxCloses
    /\ LET d == Engine_close(Self) IN
         /\ backend' = d.self.backend
         /\ ffi' = d.self.ffi
         /\ handle' = d.self.handle
         /\ http' = d.self.http
         /\ freeLog' = freeLog \o d.freed
         /\ last' = Last(op, Self, NoInit, NoNat, NoRsp, d.calls, Return(NoneValue))
    /\ ncloses' = ncloses + 1
    /\ UNCHANGED <<pc, opened, resolved, thr>>

close == CloseAs("close")

\* Engine.__exit__
exit == CloseAs("__exit__")

Next ==
    \/ Construct
    \/ ingest
    \/ propose
    \/ record_result
    \/ is_traced
    \/ set_label
    \/ explain
    \/ register_tool
    \/ close
    \/ exit

Spec == Init /\ [][Next]_vars

----------------------------------------------------------------------------
(* The resolver on its own: every environment, then one call *)

InitResolve ==
    /\ pc = "start"
    /\ backend = "none"
    /\ ffi = "None"
    /\ handle = 0
    /\ http = {}
    /\ opened = NoSession
    /\ freeLog = <<>>
    /\ ncloses = 0
    /\ last = Last("none", NoSession, NoInit, NoNat, NoRsp, <<>>, Return(NoneValue))
    /\ thr = [t \in Threads |-> Idle]
    /\ \E e \in ResolveEnvs : resolved = [env |-> e, path |-> {}]

\* path = resolve_chitin_lib()
Resolve ==
    /\ resolved.path = {}
    /\ resolved' = [resolved EXCEPT !.path = {resolve_chitin_lib(resolved.env)}]
    /\ UNCHANGED <<session, thr>>

NextResolve == Resolve

SpecResolve == InitResolve /\ [][NextResolve]_vars

----------------------------------------------------------------------------
(* Two threads on one session.  Engine holds no lock: a thread switch can   *)
(* fall between any two reads of the fields, and a ctypes or urllib call    *)
(* releases the interpreter lock while it runs.  Each action is one step of *)
(* Engine.<op> or Engine.close in one thread.                               *)

\* the handles passed to chitin_engine_free so far
Freed == {freeLog[i] : i \in 1..Len(freeLog)}

\* the sessions construction can leave open
OpenSessions ==
    {Session("ffi", "ffi", h, {}) : h \in Handles}
        \cup {Session("http", "None", 0, {RStrip(Val(u))}) :
                u \in {v \in SidecarUrls : UrlConfigured(v)}}

InitThreads ==
    /\ pc = "constructed"
    /\ \E s \in OpenSessions :
         /\ backend = s.backend
         /\ ffi = s.ffi
         /\ handle = s.handle
         /\ http = s.http
         /\ opened = s
    /\ freeLog = <<>>
    /\ ncloses = 0
    /\ last = Last("__init__", NoSession, NoInit, NoNat, NoRsp, <<>>, Return(NoneValue))
    /\ resolved = NoResolve
    /\ thr = [t \in Threads |-> Idle]

\* thread t moves to a position
Goto(t, where) == thr' = [thr EXCEPT ![t].pc = where]

\* the call of thread t is over: it returned or raised
Finish(t) == thr' = [thr EXCEPT ![t] = Idle]

Fields == <<backend, ffi, handle, http>>

\* the methods _ChitinFFI and _ChitinHTTP define: neither has set_label
FFI_has(op) == op \in Ops \ {"set_label"}
HTTP_has(op) == op \in Ops \ {"set_label"}
History == <<pc, opened, ncloses, last, resolved>>

\* a thread calls one of the seven operations, or close()
T_Begin(t) ==
    /\ thr[t].pc = "idle"
    /\ \E op \in Ops \cup {"close"} :
         thr' = [thr EXCEPT ![t] =
                    Thread(IF op = "close" THEN "close_test" ELSE "ensure_open",
                           op, 0, FALSE)]
    /\ UNCHANGED <<Fields, freeLog, History>>

\* self._ensure_open()
T_EnsureOpen(t) ==
    /\ thr[t].pc = "ensure_open"
    /\ IF EnsureOpenRaises(backend) THEN Finish(t) ELSE Goto(t, "dispatch")
    /\ UNCHANGED <<Fields, freeLog, History>>

\* if self._backend == "ffi":
T_Dispatch(t) ==
    /\ thr[t].pc = "dispatch"
    /\ IF UsesFFI(backend) THEN Goto(t, "load_ffi") ELSE Goto(t, "load_http")
    /\ UNCHANGED <<Fields, freeLog, History>>

\* self._ffi.<op>: AttributeError if _ffi is None or has no such method
T_LoadFFI(t) ==
    /\ thr[t].pc = "load_ffi"
    /\ IF ffi = "None" \/ ~FFI_has(thr[t].op)
       THEN Finish(t)
       ELSE Goto(t, "load_handle")
    /\ UNCHANGED <<Fields, freeLog, History>>

\* the argument self._handle is read
T_LoadHandle(t) ==
    /\ thr[t].pc = "load_handle"
    /\ thr' = [thr EXCEPT ![t].pc = "call_native", ![t].h = handle]
    /\ UNCHANGED <<Fields, freeLog, History>>

\* the ABI call is issued with the handle read
T_NativeEnter(t) ==
    /\ thr[t].pc = "call_native"
    /\ thr' = [thr EXCEPT ![t].pc = "in_native", ![t].stale = thr[t].h \in Freed]
    /\ UNCHANGED <<Fields, freeLog, History>>

\* the ABI call returns, and the operation with it
T_NativeReturn(t) ==
    /\ thr[t].pc = "in_native"
    /\ Finish(t)
    /\ UNCHANGED <<Fields, freeLog, History>>

\* self._http.<op>: AttributeError if _http is None or has no such method
T_LoadHTTP(t) ==
    /\ thr[t].pc = "load_http"
    /\ IF http = {} \/ ~HTTP_has(thr[t].op)
       THEN Finish(t)
       ELSE Goto(t, "call_post")
    /\ UNCHANGED <<Fields, freeLog, History>>

\* the POST is sent
T_PostEnter(t) ==
    /\ thr[t].pc = "call_post"
    /\ Goto(t, "in_post")
    /\ UNCHANGED <<Fields, freeLog, History>>

\* the response arrives, and the operation returns
T_PostReturn(t) ==
    /\ thr[t].pc = "in_post"
    /\ Finish(t)
    /\ UNCHANGED <<Fields, freeLog, History>>

\* close: if self._backend == "ffi" and self._handle is not None:
T_CloseTest(t) ==
    /\ thr[t].pc = "close_test"
    /\ IF CloseFrees(Self) THEN Goto(t, "close_load") ELSE Goto(t, "close_reset")
    /\ UNCHANGED <<Fields, freeLog, History>>

\* close: self._ffi.engine_free and its argument self._handle are read
T_CloseLoad(t) ==
    /\ thr[t].pc = "close_load"
    /\ IF ffi = "None"
       THEN Finish(t)
       ELSE thr' = [thr EXCEPT ![t].pc = "call_free", ![t].h = handle]
    /\ UNCHANGED <<Fields, freeLog, History>>

\* close: chitin_engine_free is issued with the handle read
T_FreeEnter(t) ==
    /\ thr[t].pc = "call_free"
    /\ thr' = [thr EXCEPT ![t].pc = "in_free", ![t].stale = thr[t].h \in Freed]
    /\ freeLog' = Append(freeLog, thr[t].h)
    /\ UNCHANGED <<Fields, History>>

\* close: chitin_engine_free returns; self._handle = None
T_FreeReturn(t) ==
    /\ thr[t].pc = "in_free"
    /\ Goto(t, "close_reset")
    /\ handle' = 0
    /\ UNCHANGED <<backend, ffi, http, freeLog, History>>

\* close: self._backend = "none"; self._ffi = None; self._http = None
T_CloseReset(t) ==
    /\ thr[t].pc = "close_reset"
    /\ Finish(t)
    /\ backend' = "none"
    /\ ffi' = "None"
    /\ http' = {}
    /\ UNCHANGED <<handle, freeLog, History>>

NextThreads ==
    \E t \in Threads :
        \/ T_Begin(t)
        \/ T_EnsureOpen(t)
        \/ T_Dispatch(t)
        \/ T_LoadFFI(t)
        \/ T_LoadHandle(t)
        \/ T_NativeEnter(t)
        \/ T_NativeReturn(t)
        \/ T_LoadHTTP(t)
        \/ T_PostEnter(t)
        \/ T_PostReturn(t)
        \/ T_CloseTest(t)
        \/ T_CloseLoad(t)
        \/ T_FreeEnter(t)
        \/ T_FreeReturn(t)
        \/ T_CloseReset(t)

SpecThreads == InitThreads /\ [][NextThreads]_vars

----------------------------------------------------------------------------
(* The session as a context manager:  with Engine(...) as engine: <block>   *)
(* The with statement calls __enter__, runs the block, and calls __exit__   *)
(* when the block is left, by its end or by an exception; __exit__ returns  *)
(* None, so an exception of the block goes on to the caller.                *)
(* pc:  "constructed" -> "in_with" -> "block_raised" -> "left_raised"       *)
(*                                 -> "left_ok"                             *)

\* Engine.__enter__: returns self
W_Enter ==
    /\ pc = "constructed"
    /\ ncloses = 0
    /\ last.op = "__init__"
    /\ pc' = "in_with"
    /\ last' = Last("__enter__", Self, NoInit, NoNat, NoRsp, <<>>, Return(NoneValue))
    /\ UNCHANGED <<backend, ffi, handle, http, opened, freeLog, ncloses,
                   resolved, thr>>

\* an operation in the block: if it raises, the block is left
W_Call(op) ==
    /\ pc = "in_with"
    /\ \E nat \in (IF backend = "ffi" THEN NatReplies(op) ELSE {NoNat}),
          rsp \in (IF backend = "http" THEN HttpReplies(op) ELSE {NoRsp}) :
         LET d == Engine_call(op, Self, nat, rsp) IN
         /\ last' = Last(op, Self, NoInit, nat, rsp, d.calls, d.result)
         /\ pc' = IF d.result.kind = "raise" THEN "block_raised" ELSE "in_with"
    /\ UNCHANGED <<backend, ffi, handle, http, opened, freeLog, ncloses,
                   resolved, thr>>

\* engine.close() called in the block
W_Close ==
    /\ pc = "in_with"
    /\ ncloses < MaxCloses
    /\ LET d == Engine_close(Self) IN
         /\ backend' = d.self.backend
         /\ ffi' = d.self.ffi
         /\ handle' = d.self.handle
         /\ http' = d.self.http
         /\ freeLog' = freeLog \o d.freed
         /\ last' = Last("close", Self, NoInit, NoNat, NoRsp, d.calls, Return(NoneValue))
    /\ ncloses' = ncloses + 1
    /\ UNCHANGED <<pc, opened, resolved, thr>>

\* mutant: __exit__ closes the session only when the block raised nothing
W_Exit_OnlyOnSuccess ==
    /\ pc \in {"in_with", "block_raised"}
    /\ LET d == IF pc = "in_with" THEN Engine_close(Self)
                ELSE [calls |-> <<>>, freed |-> <<>>, self |-> Self] IN
         /\ backend' = d.self.backend
         /\ ffi' = d.self.ffi
         /\ handle' = d.self.handle
         /\ http' = d.self.http
         /\ freeLog' = freeLog \o d.freed
         /\ last' = Last("__exit__", Self, NoInit, NoNat, NoRsp, d.calls, Return(NoneValue))
    /\ pc' = IF pc = "in_with" THEN "left_ok" ELSE "left_raised"
    /\ ncloses' = ncloses + 1
    /\ UNCHANGED <<opened, resolved, thr>>

\* Engine.__exit__: self.close(), when the block is left
W_Exit ==
    /\ pc \in {"in_with", "block_raised"}
    /\ LET d == Engine_close(Self) IN
         /\ backend' = d.self.backend
         /\ ffi' = d.self.ffi
         /\ handle' = d.self.handle
         /\ http' = d.self.http
         /\ freeLog' = freeLog \o d.freed
         /\ last' = Last("__exit__", Self, NoInit, NoNat, NoRsp, d.calls, Return(NoneValue))
    /\ pc' = IF pc = "in_with" THEN "left_ok" ELSE "left_raised"
    /\ ncloses' = ncloses + 1
    /\ UNCHANGED <<opened, resolved, thr>>

NextWith ==
    \/ Construct
    \/ W_Enter
    \/ \E op \in Ops : W_Call(op)
    \/ W_Close
    \/ W_Exit

SpecWith == Init /\ [][NextWith]_vars

----------------------------------------------------------------------------
(* Properties *)

CloseOps == {"close", "__exit__"}

\* the last call was one of the seven operations, made after a close()
OpAfterClose == pc = "constructed" /\ ncloses > 0 /\ last.op \in Ops

\* C1: after close(), each of the seven operations raises
\* ChitinError "Engine is closed", whichever transport the session was
\* opened on, and makes no native call and no request.
C1_ClosedOpsFail ==
    OpAfterClose =>
        /\ last.result.kind = "raise"
        /\ last.result.exc = "ChitinError"
        /\ last.result.message = "Engine is closed"
        /\ last.calls = <<>>

C1_Witness ==
    /\ OpAfterClose
    /\ opened.backend = "http"
    /\ last.op = "propose"
    /\ last.result.message = "Engine is closed"

\* what holds of engine_free over any sequence of close() calls
FreedExactlyOnce ==
    /\ (pc = "constructed" /\ last.op = "__init__" /\ opened.backend = "ffi") =>
            opened.handle = last.init.new.h /\ opened.handle \in Handles
    /\ opened.backend = "ffi" =>
            freeLog = IF ncloses = 0 THEN <<>> ELSE <<opened.handle>>
    /\ opened.backend # "ffi" => freeLog = <<>>

\* C2, as stated: on a native session engine_free is called exactly once,
\* on the handle engine_new returned, over any sequence of close() and
\* __exit__ calls; a close() on a closed session or on an RPC session calls
\* engine_free zero times and changes nothing.
C2_Original ==
    /\ FreedExactlyOnce
    /\ (last.op \in CloseOps /\ last.self.backend \in {"none", "http"}) =>
            last.calls = <<>> /\ Self = last.self

\* C2, amended: as above, except that a close() on an RPC session closes
\* it: it calls engine_free zero times, sets the backend to none and drops
\* the HTTP client.  Only the close() of a closed session changes nothing.
C2_CloseFreesOnce ==
    /\ FreedExactlyOnce
    /\ (last.op \in CloseOps /\ last.self.backend = "none") =>
            last.calls = <<>> /\ Self = last.self
    /\ (last.op \in CloseOps /\ last.self.backend = "http") =>
            last.calls = <<>> /\ Self = NoSession /\ last.self.http # {}

C2_Witness ==
    /\ opened.backend = "ffi"
    /\ ncloses = 2
    /\ last.op = "__exit__"
    /\ last.self.backend = "none"
    /\ freeLog = <<opened.handle>>

\* the last call was one of the seven operations, made on an open session
OpOnOpen == pc = "constructed" /\ last.op \in Ops /\ last.self.backend # "none"
ViaFFI == last.self.backend = "ffi"
ViaHTTP == last.self.backend = "http"
Raised == last.result.kind = "raise"
Returned == last.result.kind = "return"
RaisedChitinError == Raised /\ last.result.exc = "ChitinError"

\* the sidecar answered 2xx with a JSON object
JsonReply == last.rsp.http = "2xx" /\ last.rsp.body.kind = "obj"

\* a propose reply of the sidecar that carries a verdict: 2xx, a JSON object
\* with event_id and outcome
VerdictReply ==
    /\ JsonReply
    /\ last.rsp.body.obj.event_id # {}
    /\ last.rsp.body.obj.outcome # {}

\* the verdict the engine gave on the last propose, "none" if it gave none
ProposeVerdict ==
    IF ViaFFI
    THEN CASE last.nat.st = CHITIN_OK -> "allow"
           [] last.nat.st = CHITIN_ERR_DENIED -> "deny"
           [] last.nat.st = CHITIN_ERR_ESCALATED -> "escalate"
           [] OTHER -> "none"
    ELSE IF VerdictReply THEN Val(last.rsp.body.obj.outcome) ELSE "none"

\* C3: propose never raises when the engine's verdict is deny or escalate:
\* on either transport the verdict is returned as a Decision; propose raises
\* only when the engine status is outside {OK, DENIED, ESCALATED}.
C3_Original ==
    (OpOnOpen /\ last.op = "propose") =>
        /\ ProposeVerdict \in {"deny", "escalate"} =>
              /\ Returned
              /\ last.result.value.type = "Decision"
              /\ last.result.value.outcome = ProposeVerdict
        /\ (Raised /\ ViaFFI) =>
              last.nat.st \notin {CHITIN_OK, CHITIN_ERR_DENIED, CHITIN_ERR_ESCALATED}
        /\ (Raised /\ ViaHTTP) => ~VerdictReply

----------------------------------------------------------------------------
(* Construction *)

InitDone == last.op = "__init__"

\* the native attempt succeeds: the library loads with every symbol and
\* chitin_engine_new returns a handle
NativeOk == last.init.lib = "ok" /\ last.init.new.h # 0

\* a remote target is configured
UrlSet == UrlConfigured(last.init.url)

\* C4: construction attempts the native adapter first; the RPC adapter is
\* selected only after the native attempt failed and only when a remote
\* target is configured; when the native attempt succeeds the remote target
\* is not used; when both are unavailable construction raises ChitinError
\* and no session exists.
C4_Original ==
    InitDone =>
        /\ Head(last.calls) = "resolve_chitin_lib"
        /\ opened.backend = "http" =>
              /\ ~NativeOk /\ UrlSet
              /\ last.calls[Len(last.calls)] = "_ChitinHTTP"
        /\ NativeOk =>
              /\ pc = "constructed" /\ opened.backend = "ffi" /\ opened.http = {}
              /\ \A i \in 1..Len(last.calls) : last.calls[i] # "_ChitinHTTP"
        /\ (~NativeOk /\ ~UrlSet) =>
              /\ pc = "raised" /\ RaisedChitinError
              /\ opened = NoSession

\* C5: if the native attempt fails for any reason (library not found, load
\* error, a library lacking a symbol, engine_new returning no handle) and a
\* remote target is configured, construction does not raise and the session
\* opens on the RPC adapter.
C5_Original ==
    (InitDone /\ ~NativeOk /\ UrlSet) =>
        /\ pc = "constructed" /\ Returned
        /\ opened.backend = "http" /\ opened.http # {}

\* C6: the ChitinError construction raises when neither transport can be
\* established names both remediation paths in its message: the
\* CHITIN_LIB_PATH override and CHITIN_SIDECAR_URL.
C6_Original ==
    (InitDone /\ pc = "raised" /\ RaisedChitinError) =>
        /\ Contains(last.result.message, "CHITIN_LIB_PATH")
        /\ Contains(last.result.message, "CHITIN_SIDECAR_URL")

----------------------------------------------------------------------------
(* Operations on an open session *)

\* the type of what an operation returns
ShapeOf(op) ==
    CASE op \in {"ingest", "record_result"} -> "int"
      [] op = "propose" -> "Decision"
      [] op = "is_traced" -> "bool"
      [] op = "explain" -> "ExplainResult"
      [] OTHER -> "None"

\* the engine reports success to the last call
EngineSaysOk ==
    IF ViaFFI THEN last.nat.st = CHITIN_OK
    ELSE \/ last.rsp.http = "204"
         \/ JsonReply /\ Get(last.rsp.body.obj.status, CHITIN_OK) = CHITIN_OK

\* C7: on an open session each of the seven operations is dispatched to the
\* adapter selected at construction and returns the same shape on both
\* transports; set_label on an RPC session issues a request to the sidecar
\* and returns None on success, as it does on a native session.
C7_Original ==
    OpOnOpen =>
        /\ last.self.backend = opened.backend
        /\ ViaFFI => last.calls # <<>> /\ Head(last.calls) = "chitin_" \o last.op
        /\ ViaHTTP => last.calls = <<"POST /" \o last.op>>
        /\ Returned => last.result.value.type = ShapeOf(last.op)
        /\ (last.op = "set_label" /\ EngineSaysOk) => last.result = Return(NoneValue)

\* C8: every failure of an operation on an open session reaches the caller
\* as a ChitinError with a numeric status and a message; on the RPC
\* transport this includes a 2xx response whose body is not valid JSON and
\* a response that lacks event_id (ingest, propose, record_result).  No
\* other exception type escapes.
C8_Original ==
    OpOnOpen =>
        /\ Raised => last.result.exc = "ChitinError" /\ last.result.status \in Int
        /\ (ViaHTTP /\ last.calls # <<>> /\ last.rsp.http = "2xx"
                /\ last.rsp.body.kind = "text") => RaisedChitinError
        /\ (ViaHTTP /\ last.op \in {"ingest", "propose", "record_result"}
                /\ JsonReply /\ last.rsp.body.obj.event_id = {}) => RaisedChitinError

\* the engine produced DENIED or ESCALATED for the last call
EngineSaysVerdict ==
    IF ViaFFI THEN last.nat.st \in {CHITIN_ERR_DENIED, CHITIN_ERR_ESCALATED}
    ELSE /\ last.rsp.http \in {"2xx", "error"}
         /\ last.rsp.body.kind = "obj"
         /\ last.rsp.body.obj.status \in
                {{CHITIN_ERR_DENIED}, {CHITIN_ERR_ESCALATED}}

\* C9: when the engine produces DENIED or ESCALATED for an operation other
\* than propose, the caller receives a ChitinError whose status is INTERNAL,
\* on both transports: never swallowed, never carrying -2 or -3.
C9_Original ==
    (OpOnOpen /\ EngineSaysVerdict
        /\ last.op \in {"ingest", "record_result", "is_traced", "explain",
                        "register_tool"}) =>
        /\ RaisedChitinError
        /\ last.result.status = CHITIN_ERR_INTERNAL

\* the sidecar's propose response that carries the same fields as a reply
\* of the native engine: its status, its event id, and the rule_id and
\* reason of its last-error payload where the payload has them
SidecarReplyFor(nat) ==
    HttpReply("2xx", ObjBuf(
        [EmptyObj EXCEPT
            !.status = {nat.st},
            !.event_id = {nat.out},
            !.allowed = {nat.st = CHITIN_OK},
            !.outcome = {CASE nat.st = CHITIN_OK -> "allow"
                           [] nat.st = CHITIN_ERR_DENIED -> "deny"
                           [] OTHER -> "escalate"},
            !.rule_id = IF nat.st = CHITIN_OK THEN {} ELSE nat.le.buf.obj.rule_id,
            !.reason = IF nat.st = CHITIN_OK THEN {} ELSE nat.le.buf.obj.reason]))

\* the engine verdicts C10 is about: allow, or deny / escalate whose
\* last-error payload is a JSON object, with or without rule_id and reason
VerdictCase(nat) ==
    \/ nat.st = CHITIN_OK
    \/ /\ nat.st \in {CHITIN_ERR_DENIED, CHITIN_ERR_ESCALATED}
       /\ nat.le.st = CHITIN_OK
       /\ nat.le.buf.kind = "obj"

\* C10: for every engine verdict the Decision of the native adapter and the
\* Decision of the RPC adapter are equal in allowed, outcome, event_id,
\* rule_id and reason, given a sidecar response carrying the same fields.
C10_Original ==
    (OpOnOpen /\ last.op = "propose" /\ ViaFFI /\ VerdictCase(last.nat)) =>
        /\ Returned
        /\ HTTP_propose(SidecarReplyFor(last.nat)).result = last.result

----------------------------------------------------------------------------
(* The RPC transport: statuses and bodies of the sidecar's responses *)

NonProposeOps == {"ingest", "record_result", "is_traced", "explain",
                  "register_tool"}

\* the sidecar answered 2xx with a JSON object whose status is not OK
NonOkBody ==
    /\ JsonReply
    /\ last.rsp.body.obj.status # {}
    /\ last.rsp.body.obj.status # {CHITIN_OK}

\* C12: on the RPC transport, for every operation other than propose, a 2xx
\* response whose body carries a status other than OK makes the operation
\* raise ChitinError with the body's status and error fields; no such
\* operation returns normally on a non-OK body status.
C12_Original ==
    (OpOnOpen /\ ViaHTTP /\ last.op \in NonProposeOps /\ NonOkBody) =>
        /\ RaisedChitinError
        /\ last.result.status = Val(last.rsp.body.obj.status)
        /\ last.rsp.body.obj.error # {} =>
              last.result.message = Val(last.rsp.body.obj.error)

\* the sidecar answered with no content: HTTP 204, or 2xx with an empty body
EmptyReply ==
    \/ last.rsp.http = "204"
    \/ last.rsp.http = "2xx" /\ last.rsp.body.kind = "empty"

\* C13: on the RPC transport a response with an empty body (or HTTP 204) is
\* accepted as success only by register_tool; for ingest, propose,
\* record_result, is_traced and explain it is a ChitinError and never
\* yields a success value.
C13_Original ==
    (OpOnOpen /\ ViaHTTP /\ last.calls # <<>> /\ EmptyReply) =>
        /\ last.op = "register_tool" => last.result = Return(NoneValue)
        /\ last.op \in {"ingest", "propose", "record_result", "is_traced",
                        "explain"} => RaisedChitinError

----------------------------------------------------------------------------
(* The native transport: buffers and the last-error protocol *)

\* how many times the call named c occurs in a sequence of transport calls
RECURSIVE Count(_, _)
Count(calls, c) ==
    IF calls = <<>> THEN 0
    ELSE (IF Head(calls) = c THEN 1 ELSE 0) + Count(Tail(calls), c)

\* the last call went through the native adapter: an operation on an open
\* native session, or the engine_new of a construction
NativeCall ==
    \/ OpOnOpen /\ ViaFFI
    \/ InitDone /\ Count(last.calls, "chitin_engine_new") = 1

\* the reply of the engine the last native call got
LastNat ==
    IF InitDone
    THEN NatReply(IF last.init.new.h = 0 THEN CHITIN_ERR_INTERNAL ELSE CHITIN_OK,
                  last.init.new.h, NullBuf, last.init.new.le)
    ELSE last.nat

\* the non-null buffers the engine handed back during the last native call:
\* the payload of explain, and the payload of chitin_last_error if called
BuffersHandedBack ==
    (IF LastNat.st = CHITIN_OK /\ LastNat.buf.kind # "null" THEN 1 ELSE 0)
      + (IF Count(last.calls, "chitin_last_error") > 0
            /\ LastNat.le.buf.kind # "null" THEN 1 ELSE 0)

\* C14: every buffer the native engine hands back (the explain payload and
\* the last-error payload) is released with chitin_free_string exactly once
\* before the adapter call returns, on every exit path: successful decode,
\* decode failure, a non-null buffer of length zero, and a last-error call
\* that returns NOT_FOUND together with a non-null buffer.
C14_Original ==
    NativeCall =>
        Count(last.calls, "chitin_free_string") = BuffersHandedBack

\* where the primary ABI call stands in the calls of the last native call:
\* __init__ resolves and loads the library and sets the signatures first
PrimaryIndex == IF InitDone THEN 4 ELSE 1

\* the native call the last operation went through returned a failing status
\* (chitin_engine_new: a NULL pointer)
NativeFailed == NativeCall /\ last.calls # <<>> /\ LastNat.st # CHITIN_OK

\* what _last_error gave after the last native call
LastErrorFetched == FFI_last_error(LastNat.le)

\* what holds of the two-step protocol on every path: a failing status is
\* followed at once by exactly one chitin_last_error and then only by the
\* release of its buffer; a ChitinError raised carries the status and the
\* fetched text; a Decision returned takes its fields from it; an OK status
\* makes no chitin_last_error call
LastErrorProtocol ==
    /\ NativeFailed =>
          /\ Len(last.calls) > PrimaryIndex
          /\ last.calls[PrimaryIndex + 1] = "chitin_last_error"
          /\ Count(last.calls, "chitin_last_error") = 1
          /\ \A j \in (PrimaryIndex + 2)..Len(last.calls) :
                last.calls[j] \in {"chitin_free_string", "_ChitinHTTP"}
          /\ (OpOnOpen /\ RaisedChitinError) =>
                /\ last.result.status = LastNat.st
                /\ last.result.message = LastErrorFetched.text
          /\ (OpOnOpen /\ Returned) =>
                /\ last.op = "propose"
                /\ LastNat.st \in {CHITIN_ERR_DENIED, CHITIN_ERR_ESCALATED}
                /\ LET f == FFI_verdict_fields(LastNat.le, LastErrorFetched.text) IN
                     /\ last.result.value.rule_id = f.rule_id
                     /\ last.result.value.reason = f.reason
    /\ (NativeCall /\ ~NativeFailed) =>
          Count(last.calls, "chitin_last_error") = 0

\* C15: the native two-step error protocol.  Whenever the status a native
\* operation returns is not OK, the adapter makes exactly one
\* chitin_last_error call, immediately after the failing call and before any
\* other engine call, and the text it returns is the message of the
\* ChitinError raised, or the source of the verdict fields of propose; when
\* the status is OK, chitin_last_error is not called.
C15_Original ==
    /\ LastErrorProtocol
    /\ (NativeFailed /\ OpOnOpen) => (RaisedChitinError \/ Returned)

\* the last-error text of the last native call parses as a JSON object
LastErrorIsObj ==
    LastNat.le.st # CHITIN_ERR_NOT_FOUND /\ LastNat.le.buf.kind = "obj"

\* the verdict fields C16 states for a DENIED / ESCALATED propose
VerdictFieldsStated ==
    IF LastErrorIsObj
    THEN /\ last.result.value.rule_id = LastNat.le.buf.obj.rule_id
         /\ last.result.value.reason = {Get(LastNat.le.buf.obj.reason, "")}
    ELSE /\ last.result.value.rule_id = {}
         /\ last.result.value.reason = {LastErrorFetched.text}

\* C16: native propose maps status to result: OK gives Decision(allowed =
\* true, outcome = allow); DENIED gives outcome = deny and ESCALATED gives
\* outcome = escalate, both with allowed = false and with rule_id and reason
\* taken from the last-error text parsed as JSON; when that text does not
\* parse as a JSON object, rule_id is None and reason is the raw last-error
\* text; any other status raises ChitinError with that status.
C16_Original ==
    (OpOnOpen /\ ViaFFI /\ last.op = "propose") =>
        /\ last.nat.st = CHITIN_OK =>
              /\ Returned
              /\ last.result.value.type = "Decision"
              /\ last.result.value.allowed = TRUE
              /\ last.result.value.outcome = "allow"
        /\ last.nat.st \in {CHITIN_ERR_DENIED, CHITIN_ERR_ESCALATED} =>
              /\ Returned
              /\ last.result.value.type = "Decision"
              /\ last.result.value.allowed = FALSE
              /\ last.result.value.outcome =
                    (IF last.nat.st = CHITIN_ERR_DENIED THEN "deny" ELSE "escalate")
              /\ VerdictFieldsStated
        /\ last.nat.st \notin {CHITIN_OK, CHITIN_ERR_DENIED, CHITIN_ERR_ESCALATED} =>
              /\ RaisedChitinError
              /\ last.result.status = last.nat.st

----------------------------------------------------------------------------
(* The RPC transport: failures of the exchange itself *)

\* the last operation sent a request to the sidecar
Requested == OpOnOpen /\ ViaHTTP /\ last.calls # <<>>

\* C17: RPC transport-level failures map to ChitinError, for every
\* operation: a non-2xx response whose body is a JSON object yields the
\* body's status and error fields; a non-2xx response whose body cannot be
\* decoded as such yields status INTERNAL; a connection-level failure with no
\* response yields status INTERNAL with the underlying network error as
\* message.
C17_Original ==
    Requested =>
        /\ (last.rsp.http = "error" /\ last.rsp.body.kind = "obj") =>
              /\ RaisedChitinError
              /\ last.rsp.body.obj.status # {} =>
                    last.result.status = Val(last.rsp.body.obj.status)
              /\ last.rsp.body.obj.error # {} =>
                    last.result.message = Val(last.rsp.body.obj.error)
        /\ (last.rsp.http = "error" /\ last.rsp.body.kind # "obj") =>
              /\ RaisedChitinError
              /\ last.result.status = CHITIN_ERR_INTERNAL
        /\ last.rsp.http = "urlerror" =>
              /\ RaisedChitinError
              /\ last.result.status = CHITIN_ERR_INTERNAL
              /\ last.result.message = "Connection refused"

----------------------------------------------------------------------------
(* Retries *)

\* the primary transport call of an operation
PrimaryCall(op, b) == IF b = "ffi" THEN "chitin_" \o op ELSE "POST /" \o op

\* the calls an invocation may make besides its primary call
FollowUpCalls == {"chitin_last_error", "chitin_free_string"}

\* C18: no operation is retried: each invocation of an operation on an open
\* session issues exactly one primary transport call (one POST on the RPC
\* adapter; one ABI call on the native adapter, followed by at most one
\* last-error fetch), whatever the outcome, and a failure is raised to the
\* caller from that same invocation.
C18_Original ==
    OpOnOpen =>
        /\ Count(last.calls, PrimaryCall(last.op, last.self.backend)) = 1
        /\ Head(last.calls) = PrimaryCall(last.op, last.self.backend)
        /\ ViaHTTP => Len(last.calls) = 1
        /\ ViaFFI =>
              /\ Count(last.calls, "chitin_last_error") <= 1
              /\ \A j \in 2..Len(last.calls) : last.calls[j] \in FollowUpCalls
        /\ (ViaFFI /\ last.nat.st \notin
                {CHITIN_OK, CHITIN_ERR_DENIED, CHITIN_ERR_ESCALATED}) => Raised
        /\ (ViaHTTP /\ last.rsp.http \in {"error", "urlerror"}) => Raised

----------------------------------------------------------------------------
(* The library resolver *)

\* the override names an existing file
OverrideIsFile ==
    /\ resolved.env.env_path # {}
    /\ Val(resolved.env.env_path) # ""
    /\ resolved.env.at_env = "file"

\* the first candidate that matches, in the order of C19
FirstMatch ==
    CASE OverrideIsFile -> "override"
      [] resolved.env.bundled # "absent" -> "bundled"
      [] resolved.env.dev_cwd = "file" -> "dev_cwd"
      [] resolved.env.sibling = "file" -> "sibling"
      [] OTHER -> "name"

\* C19: the library resolver returns the first match of a fixed order: (1)
\* the explicit override path, only when it names an existing file; (2) the
\* bundled location; (3) the local build output; (4) the sibling project's
\* build output; (5) otherwise the bare platform library name.  An override
\* that names an existing file always wins over every other candidate, and
\* an override that names no existing file is skipped without error.
C19_ResolveOrder ==
    resolved.path # {} =>
        LET path == Val(resolved.path)
            name == LibName(resolved.env.system)
        IN  /\ FirstMatch = "override" =>
                  path = AbsPath(Val(resolved.env.env_path))
            /\ FirstMatch = "bundled" =>
                  path = Parent(ResolveFile) \o "/_lib/" \o name
            /\ FirstMatch = "dev_cwd" =>
                  path = Cwd \o "/target/release/" \o name
            /\ FirstMatch = "sibling" =>
                  path = "/srv/chitin-engine/target/release/" \o name
            /\ FirstMatch = "name" =>
                  path = name /\ path \in {"libchitin.so", "libchitin.dylib",
                                           "chitin.dll"}
            /\ (resolved.env.env_path # {} /\ ~OverrideIsFile) =>
                  /\ FirstMatch # "override"
                  /\ path # AbsPath(Val(resolved.env.env_path))

\* an override is set and names no file, the bundled location is empty, and
\* the local build output is returned
C19_Witness ==
    /\ resolved.path = {"/work/target/release/libchitin.dylib"}
    /\ resolved.env.env_path = {"/opt/chitin/libchitin.so"}
    /\ resolved.env.at_env = "dir"
    /\ resolved.env.sibling = "file"

----------------------------------------------------------------------------
(* The fields of the session *)

\* C20: in every state reachable by construction followed by any sequence of
\* operations and close calls, the backend is exactly one of ffi, http,
\* none; backend = ffi implies the FFI wrapper and a non-null engine handle
\* are set and the HTTP client is not; backend = http implies the HTTP client
\* is set and no engine handle is held; backend = none implies no handle, no
\* FFI wrapper and no HTTP client are held.
C20_SessionInvariant ==
    /\ backend \in {"ffi", "http", "none"}
    /\ backend = "ffi" => (ffi # "None" /\ handle \in Handles /\ http = {})
    /\ backend = "http" => (http # {} /\ handle = 0)
    /\ backend = "none" => (handle = 0 /\ ffi = "None" /\ http = {})

\* a native session, closed, and an operation attempted on it afterwards
C20_Witness ==
    /\ pc = "constructed"
    /\ opened.backend = "ffi"
    /\ opened.handle \in Handles
    /\ ncloses = 1
    /\ freeLog = <<opened.handle>>
    /\ last.op = "ingest"
    /\ Self = NoSession

----------------------------------------------------------------------------
(* Two threads on one session *)

\* the threads whose transport operation is in flight
InFlight == {t \in Threads : thr[t].pc \in {"in_native", "in_post", "in_free"}}

AtMostOneInFlight == Cardinality(InFlight) <= 1

\* no ABI call is in flight that was issued with a handle already passed to
\* engine_free
NoCallOnFreedHandle ==
    \A t \in Threads : thr[t].pc = "in_native" => ~thr[t].stale

\* no handle is passed to engine_free twice
NoDoubleFree ==
    \A i, j \in 1..Len(freeLog) : freeLog[i] = freeLog[j] => i = j

\* C11: when two threads invoke operations (including close) on the same
\* session, at most one transport operation of that session is in flight at
\* any time; in particular no native call is issued with a handle that a
\* concurrent close() has already passed to engine_free, and engine_free is
\* not called twice by two concurrent close() calls.
C11_Original ==
    /\ AtMostOneInFlight
    /\ NoCallOnFreedHandle
    /\ NoDoubleFree

----------------------------------------------------------------------------
(* The lifecycle of the session *)

\* C21: only close() changes the lifecycle state of a session: an operation
\* that returns or raises on an open session leaves the backend kind and the
\* engine handle unchanged, so the session stays open on the same transport;
\* and no operation moves a closed session back to open.
C21_OnlyCloseChangesState ==
    /\ (pc = "constructed" /\ last.op \in Ops) =>
          /\ backend = last.self.backend
          /\ handle = last.self.handle
          /\ Self = last.self
          /\ last.self.backend = "none" => backend = "none"
    /\ (pc = "constructed" /\ ncloses = 0) => Self = opened
    /\ (pc = "constructed" /\ ncloses > 0) => backend = "none"

\* a native operation raised ChitinError and the session is still open on
\* the native transport, with the handle engine_new returned
C21_Witness ==
    /\ OpOnOpen /\ ViaFFI
    /\ last.op = "record_result"
    /\ RaisedChitinError
    /\ last.result.status = CHITIN_ERR_INTERNAL
    /\ backend = "ffi"
    /\ handle = opened.handle
    /\ handle \in Handles

----------------------------------------------------------------------------
(* The Decision of propose *)

\* C22: every Decision returned by propose, on either transport and for
\* every engine response, is well formed: outcome is one of allow, deny,
\* escalate, and allowed is true exactly when outcome is allow.
C22_Original ==
    (OpOnOpen /\ last.op = "propose" /\ Returned) =>
        /\ last.result.value.type = "Decision"
        /\ last.result.value.outcome \in {"allow", "deny", "escalate"}
        /\ last.result.value.allowed = (last.result.value.outcome = "allow")

----------------------------------------------------------------------------
(* The session as a context manager *)

\* the with-block has been left
BlockLeft == pc \in {"left_ok", "left_raised"}

\* C23: a session used as a context manager is always closed when the
\* with-block is left, whether the block finishes normally or an operation
\* inside it raises: afterwards the backend is none and, for a native
\* session, engine_free has been called exactly once.
C23_ClosedOnExit ==
    /\ BlockLeft =>
          /\ last.op = "__exit__"
          /\ backend = "none"
          /\ Self = NoSession
          /\ opened.backend = "ffi" => freeLog = <<opened.handle>>
          /\ opened.backend # "ffi" => freeLog = <<>>
    /\ pc = "block_raised" => (Raised /\ last.op \in Ops)

\* a native session whose block was left by an exception of an operation
C23_Witness ==
    /\ pc = "left_raised"
    /\ opened.backend = "ffi"
    /\ last.op = "__exit__"
    /\ last.self = opened
    /\ last.calls = <<"chitin_engine_free">>
    /\ freeLog = <<opened.handle>>
    /\ backend = "none"

----------------------------------------------------------------------------
(* Engine instances created by construction *)

\* the handles chitin_engine_new returned to the last construction
HandlesCreated ==
    IF Count(last.calls, "chitin_engine_new") = 1 /\ last.init.new.h # 0
    THEN {last.init.new.h}
    ELSE {}

\* the handles a session owns after the last construction
HandlesOwned == IF backend = "ffi" /\ handle # 0 THEN {handle} ELSE {}

\* C24: session construction never leaks a native engine instance: whenever
\* construction raises, or ends on the RPC adapter after a failed native
\* attempt, no engine handle returned by engine_new is left without an
\* owner; every handle that engine_new returns is stored in a session whose
\* backend is ffi.
C24_NoLeakOnConstruction ==
    InitDone =>
        /\ HandlesCreated = HandlesOwned
        /\ (pc = "raised" \/ backend = "http") => HandlesCreated = {}
        /\ HandlesCreated # {} =>
              pc = "constructed" /\ backend = "ffi" /\ opened.backend = "ffi"

\* chitin_engine_new was called and returned NULL, and construction ended on
\* the RPC adapter
C24_Witness ==
    /\ InitDone
    /\ pc = "constructed"
    /\ backend = "http"
    /\ Count(last.calls, "chitin_engine_new") = 1
    /\ last.init.new.h = 0
    /\ HandlesCreated = {}

====
